---- MODULE Spec2Model ----
(***************************************************************************)
(* A model of webchan: two WebChan endpoints, A and B, wrapped around the  *)
(* two ends of one duplex stream.  Each endpoint runs the send routine and *)
(* the recv routine started by NewNamedWebChan; callers enqueue on Send,   *)
(* read Recv and Error, and call Close().                                  *)
(***************************************************************************)
EXTENDS Integers, Sequences, FiniteSets, TLC

Endpoints == {"A", "B"}

Peer(e) == IF e = "A" THEN "B" ELSE "A"

\* Goroutines that may call Close() on an endpoint.
Callers == {1, 2}

\* Endpoints whose caller enqueues values on Send.
Senders == {"A"}

----------------------------------------------------------------------------
\* Bounds of the model.

\* Largest bufLength handed to the constructor.
MaxBufLen == 2

\* Number of values the caller enqueues on one endpoint's Send.
MaxSends == 2

\* Number of JSON values the stream holds in one direction (kernel buffer
\* plus the decoder's read buffer) before a write blocks.
WireCap == 2

\* Number of Close() calls one caller makes.
MaxCloseCalls == 2

\* Capacity of the Error channel.
ErrCap == 100

----------------------------------------------------------------------------
\* Go values, their runtime types and their JSON encodings.

\* A Go value: its runtime type and its contents (a is the numeric part, b
\* the string part; testType{A, B} uses both).
Hello == [type |-> "string", a |-> 0, b |-> "Hello"]

TestValue == [type |-> "webchan.testType", a |-> 42, b |-> "Hello"]

Seven == [type |-> "int", a |-> 7, b |-> ""]

Values == {Hello, TestValue, Seven}

NoValue == [type |-> "", a |-> 0, b |-> ""]

\* The kind of JSON value encoding/json writes for a Go type.
JsonKind(t) ==
    IF t = "string" THEN "str"
    ELSE IF t = "int" THEN "num"
    ELSE "obj"

\* json.Encoder.Encode of a value: one self-delimiting JSON value.
EncodeValue(v) ==
    [j |-> JsonKind(v.type),
     a |-> IF JsonKind(v.type) = "str" THEN 0 ELSE v.a,
     b |-> IF JsonKind(v.type) = "num" THEN "" ELSE v.b]

\* json.Encoder.Encode of a type name (a Go string).
EncodeName(n) == [j |-> "str", a |-> 0, b |-> n]

\* json.Decoder.Decode into a *string succeeds on a JSON string only.
DecodesAsName(tok) == tok.j = "str"

DecodeName(tok) == tok.b

\* A decoder that takes JSON strings only.
DecodesAsStringOnly(tok, t) == tok.j = "str" /\ t = "string"

\* json.Decoder.Decode into reflect.New(t) succeeds when the JSON kind fits
\* the Go type; the result is data.Elem().Interface().
DecodesAs(tok, t) == tok.j = JsonKind(t)

\* A recv routine that hands on the reflect.Value instead of what it holds.
DecodeValueBoxed(tok, t) ==
    [type |-> "reflect.Value",
     a |-> IF JsonKind(t) = "str" THEN 0 ELSE tok.a,
     b |-> IF JsonKind(t) = "num" THEN "" ELSE tok.b]

DecodeValue(tok, t) ==
    [type |-> t,
     a |-> IF JsonKind(t) = "str" THEN 0 ELSE tok.a,
     b |-> IF JsonKind(t) = "num" THEN "" ELSE tok.b]

----------------------------------------------------------------------------
\* Registries: name -> reflect.Type, as NewWebChan builds them with "%T".

RegFull == [n \in {"string", "webchan.testType"} |-> n]

RegStr == [n \in {"string"} |-> n]

VARIABLES
    allowedTypes,   \* [Endpoints -> registry], immutable after construction
    readFaulty,     \* endpoints whose reads of the stream fail spuriously
    writeFaulty,    \* endpoints whose writes to the stream fail spuriously
    closers,        \* endpoints whose owner calls Close()
    bufLength,      \* capacity of Send and of Recv, set by the constructor
    Send,           \* [Endpoints -> Seq(Value)], buffered contents of Send
    sendClosed,     \* [Endpoints -> BOOLEAN], Send has been closed
    Recv,           \* buffered contents of Recv
    recvClosed,     \* Recv has been closed
    Error,          \* buffered contents of Error ("send" / "recv" errors)
    errorClosed,    \* Error has been closed
    dropped,        \* kinds of error tryPushError found no room for
    closeRecvChan,  \* closeRecvChan has been closed (the shutdown signal)
    socCloses,      \* number of soc.Close() calls made on the endpoint
    wire,           \* [Endpoints -> Seq(token)], JSON values travelling to e
    sendPc,         \* position of the send routine
    sendData,       \* value the send routine holds
    sendName,       \* type name the send routine resolved for it
    recvPc,         \* position of the recv routine
    recvType,       \* type the recv routine resolved from the name read
    recvData,       \* value the recv routine decoded
    recvErr,        \* error the recv routine is about to report
    closePc,        \* [Endpoints -> [Callers -> position inside Close()]]
    closeCalls,     \* [Endpoints -> [Callers -> number of Close() calls begun]]
    panicked,       \* "none", or the panic that ended the process
    sent,           \* history: values enqueued on Send
    pushed          \* history: values the recv routine pushed onto Recv

envVars == <<allowedTypes, readFaulty, writeFaulty, closers, bufLength>>

sendVars == <<sendPc, sendData, sendName>>

recvVars == <<recvPc, recvType, recvData, recvErr>>

closeVars == <<closePc, closeCalls>>

vars == <<allowedTypes, readFaulty, writeFaulty, closers, bufLength, dropped,
          Send, sendClosed, Recv, recvClosed, Error,
          errorClosed, closeRecvChan, socCloses, wire, sendPc, sendData,
          sendName, recvPc, recvType, recvData, recvErr, closePc, closeCalls,
          panicked, sent, pushed>>

socClosed(e) == socCloses[e] > 0

----------------------------------------------------------------------------
\* Helpers of WebChan.

\* A lookup that falls back on the value's own "%T" name when none is
\* registered.
getAllowedTypeNameOrOwn(e, data) ==
    IF \E k \in DOMAIN allowedTypes[e] : allowedTypes[e][k] = data.type
    THEN {k \in DOMAIN allowedTypes[e] : allowedTypes[e][k] = data.type}
    ELSE {data.type}

\* getAllowedTypeName: the names registered for the value's runtime type
\* (the map is scanned in Go's unspecified order; empty means not found).
getAllowedTypeName(e, data) ==
    {k \in DOMAIN allowedTypes[e] : allowedTypes[e][k] = data.type}

\* createTypeInterfaceReflectPointer: whether the name resolves.
createTypeInterfaceReflectPointer(e, typeName) ==
    typeName \in DOMAIN allowedTypes[e]

\* A tryPushError that sends on Error without a default case.
tryPushErrorBlocking(e, err) ==
    /\ Len(Error[e]) < ErrCap
    /\ Error' = [Error EXCEPT ![e] = Append(@, err)]
    /\ UNCHANGED dropped

\* tryPushError: select { case wc.Error <- err: default: fmt.Println(...) }
tryPushError(e, err) ==
    IF Len(Error[e]) < ErrCap
    THEN /\ Error' = [Error EXCEPT ![e] = Append(@, err)]
         /\ UNCHANGED dropped
    ELSE /\ dropped' = [dropped EXCEPT ![e] = @ \cup {err}]
         /\ UNCHANGED Error

----------------------------------------------------------------------------
\* The stream (net.Conn) under the two endpoints.

\* A write by e is accepted: both ends open and room in the stream.
WriteOk(e) ==
    /\ ~socClosed(e)
    /\ ~socClosed(Peer(e))
    /\ Len(wire[Peer(e)]) < WireCap

\* A write by e returns an error: an end is closed, or the stream fails.
WriteFails(e) == socClosed(e) \/ socClosed(Peer(e)) \/ e \in writeFaulty

\* A read by e returns net.ErrClosed or io.EOF: the local end is closed, or
\* the peer closed its end and everything it wrote has been read.
ReadClosed(e) == socClosed(e) \/ (socClosed(Peer(e)) /\ wire[e] = <<>>)

\* A read by e returns another error: io.ErrClosedPipe of a closed local
\* net.Pipe end, or a failure of the stream.
ReadFails(e) == socClosed(e) \/ e \in readFaulty

----------------------------------------------------------------------------
\* Send routine (one goroutine per endpoint).

\* A send routine that takes the newest buffered value instead.
SendNextNewest(e) == Send[e][Len(Send[e])]

\* The value <-wc.Send hands to the send routine: the oldest one buffered.
SendNext(e) == Head(Send[e])

\* data, ok := <-wc.Send, then getAllowedTypeName(data).
SendDequeue(e) ==
    /\ panicked = "none"
    /\ sendPc[e] = "recv"
    /\ \/ /\ Send[e] # <<>>
          /\ Send' = [Send EXCEPT ![e] = Tail(@)]
          /\ sendData' = [sendData EXCEPT ![e] = SendNext(e)]
          /\ IF getAllowedTypeName(e, SendNext(e)) # {}
             THEN /\ \E k \in getAllowedTypeName(e, SendNext(e)) :
                        sendName' = [sendName EXCEPT ![e] = k]
                  /\ sendPc' = [sendPc EXCEPT ![e] = "encName"]
                  /\ UNCHANGED panicked
             ELSE /\ panicked' = "type not allowed"
                  /\ UNCHANGED <<sendName, sendPc>>
       \/ /\ Send[e] = <<>>
          /\ sendClosed[e]
          /\ sendPc' = [sendPc EXCEPT ![e] = "done"]
          /\ UNCHANGED <<Send, sendData, sendName, panicked>>
    /\ UNCHANGED <<envVars, dropped, sendClosed, Recv, recvClosed, Error,
                   errorClosed, closeRecvChan, socCloses, wire, recvVars,
                   closeVars, sent, pushed>>

\* A send routine that writes the payload whether or not the write of the
\* name succeeded.
SendEncodeNameThenData(e) ==
    /\ panicked = "none"
    /\ sendPc[e] = "encName"
    /\ \/ /\ WriteOk(e)
          /\ wire' = [wire EXCEPT
                ![Peer(e)] = Append(@, EncodeName(sendName[e]))]
       \/ /\ WriteFails(e)
          /\ UNCHANGED wire
    /\ sendPc' = [sendPc EXCEPT ![e] = "encData"]
    /\ UNCHANGED <<envVars, dropped, Send, sendClosed, Recv, recvClosed,
                   Error, errorClosed, closeRecvChan, socCloses, sendData,
                   sendName, recvVars, closeVars, panicked, sent, pushed>>

\* err := wc.encoder.Encode(typeName)
SendEncodeName(e) ==
    /\ panicked = "none"
    /\ sendPc[e] = "encName"
    /\ \/ /\ WriteOk(e)
          /\ wire' = [wire EXCEPT
                ![Peer(e)] = Append(@, EncodeName(sendName[e]))]
          /\ sendPc' = [sendPc EXCEPT ![e] = "encData"]
       \/ /\ WriteFails(e)
          /\ sendPc' = [sendPc EXCEPT ![e] = "report"]
          /\ UNCHANGED wire
    /\ UNCHANGED <<envVars, dropped, Send, sendClosed, Recv, recvClosed,
                   Error, errorClosed, closeRecvChan, socCloses, sendData,
                   sendName, recvVars, closeVars, panicked, sent, pushed>>

\* if err == nil { err = wc.encoder.Encode(data) }
SendEncodeData(e) ==
    /\ panicked = "none"
    /\ sendPc[e] = "encData"
    /\ \/ /\ WriteOk(e)
          /\ wire' = [wire EXCEPT
                ![Peer(e)] = Append(@, EncodeValue(sendData[e]))]
          /\ sendPc' = [sendPc EXCEPT ![e] = "recv"]
       \/ /\ WriteFails(e)
          /\ sendPc' = [sendPc EXCEPT ![e] = "report"]
          /\ UNCHANGED wire
    /\ UNCHANGED <<envVars, dropped, Send, sendClosed, Recv, recvClosed,
                   Error, errorClosed, closeRecvChan, socCloses, sendData,
                   sendName, recvVars, closeVars, panicked, sent, pushed>>

\* A send routine that returns after reporting a failed write.
SendReportReturning(e) ==
    /\ panicked = "none"
    /\ sendPc[e] = "report"
    /\ tryPushError(e, "send")
    /\ sendPc' = [sendPc EXCEPT ![e] = "done"]
    /\ UNCHANGED <<envVars, Send, sendClosed, Recv, recvClosed, errorClosed,
                   closeRecvChan, socCloses, wire, sendData, sendName,
                   recvVars, closeVars, panicked, sent, pushed>>

\* if err != nil { wc.tryPushError(&sendError{err}); continue }
SendReport(e) ==
    /\ panicked = "none"
    /\ sendPc[e] = "report"
    /\ tryPushError(e, "send")
    /\ sendPc' = [sendPc EXCEPT ![e] = "recv"]
    /\ UNCHANGED <<envVars, Send, sendClosed, Recv, recvClosed, errorClosed,
                   closeRecvChan, socCloses, wire, sendData, sendName,
                   recvVars, closeVars, panicked, sent, pushed>>

----------------------------------------------------------------------------
\* Recv routine (one goroutine per endpoint).

\* A recv routine that reports the end of the stream like any other error
\* and goes on.
RecvReturnReporting(e) ==
    /\ recvPc' = [recvPc EXCEPT ![e] = "report"]
    /\ UNCHANGED <<recvClosed, errorClosed>>

\* A deferred function that closes Error along with Recv.
RecvReturnClosingError(e) ==
    /\ recvClosed' = [recvClosed EXCEPT ![e] = TRUE]
    /\ errorClosed' = [errorClosed EXCEPT ![e] = TRUE]
    /\ recvPc' = [recvPc EXCEPT ![e] = "done"]

\* return from the recv routine: the deferred close(wc.Recv) runs.
RecvReturn(e) ==
    /\ recvClosed' = [recvClosed EXCEPT ![e] = TRUE]
    /\ recvPc' = [recvPc EXCEPT ![e] = "done"]
    /\ UNCHANGED errorClosed

\* A recv routine that returns on every error.
RecvFailReturning(e, err) ==
    /\ recvErr' = [recvErr EXCEPT ![e] = err]
    /\ RecvReturn(e)

\* continue after an error: the error is kept for tryPushError.
RecvFail(e, err) ==
    /\ recvErr' = [recvErr EXCEPT ![e] = err]
    /\ recvPc' = [recvPc EXCEPT ![e] = "report"]
    /\ UNCHANGED <<recvClosed, errorClosed>>

\* A recv routine whose loop does not look at closeRecvChan.
RecvSelectUnchecked(e) ==
    /\ panicked = "none"
    /\ recvPc[e] = "select"
    /\ recvPc' = [recvPc EXCEPT ![e] = "decName"]
    /\ UNCHANGED <<envVars, dropped, Send, sendClosed, Recv, recvClosed,
                   Error, errorClosed, closeRecvChan, socCloses, wire,
                   sendVars, recvType, recvData, recvErr, closeVars,
                   panicked, sent, pushed>>

\* select { case <-wc.closeRecvChan: return; default: ... }
RecvSelect(e) ==
    /\ panicked = "none"
    /\ recvPc[e] = "select"
    /\ IF closeRecvChan[e]
       THEN RecvReturn(e)
       ELSE /\ recvPc' = [recvPc EXCEPT ![e] = "decName"]
            /\ UNCHANGED <<recvClosed, errorClosed>>
    /\ UNCHANGED <<envVars, dropped, Send, sendClosed, Recv, Error,
                   closeRecvChan, socCloses, wire, sendVars, recvType,
                   recvData, recvErr, closeVars, panicked, sent, pushed>>

\* A recv routine that, on a name it cannot resolve, also discards the
\* payload that follows the name when it has arrived.
RecvDecodeNameSkipping(e) ==
    /\ panicked = "none"
    /\ recvPc[e] = "decName"
    /\ \/ /\ wire[e] # <<>>
          /\ IF ~DecodesAsName(Head(wire[e]))
             THEN /\ RecvFail(e, "unmarshal")
                  /\ wire' = [wire EXCEPT ![e] = Tail(@)]
                  /\ UNCHANGED recvType
             ELSE IF createTypeInterfaceReflectPointer(
                        e, DecodeName(Head(wire[e])))
             THEN /\ recvType' = [recvType EXCEPT
                        ![e] = allowedTypes[e][DecodeName(Head(wire[e]))]]
                  /\ recvPc' = [recvPc EXCEPT ![e] = "decData"]
                  /\ wire' = [wire EXCEPT ![e] = Tail(@)]
                  /\ UNCHANGED <<recvErr, recvClosed, errorClosed>>
             ELSE /\ RecvFail(e, "type not allowed")
                  /\ wire' = [wire EXCEPT ![e] =
                        IF Len(@) >= 2 THEN Tail(Tail(@)) ELSE Tail(@)]
                  /\ UNCHANGED recvType
       \/ /\ ReadClosed(e)
          /\ RecvReturn(e)
          /\ UNCHANGED <<wire, recvType, recvErr>>
       \/ /\ ReadFails(e)
          /\ RecvFail(e, "read")
          /\ UNCHANGED <<wire, recvType>>
    /\ UNCHANGED <<envVars, dropped, Send, sendClosed, Recv, Error,
                   closeRecvChan, socCloses, sendVars, recvData, closeVars,
                   panicked, sent, pushed>>

\* err := wc.decoder.Decode(&typeName), then
\* wc.createTypeInterfaceReflectPointer(typeName).  A value that is already
\* in the decoder's buffer is decoded even after the local end was closed.
RecvDecodeName(e) ==
    /\ panicked = "none"
    /\ recvPc[e] = "decName"
    /\ \/ /\ wire[e] # <<>>
          /\ wire' = [wire EXCEPT ![e] = Tail(@)]
          /\ IF ~DecodesAsName(Head(wire[e]))
             THEN /\ RecvFail(e, "unmarshal")
                  /\ UNCHANGED recvType
             ELSE IF createTypeInterfaceReflectPointer(
                        e, DecodeName(Head(wire[e])))
             THEN /\ recvType' = [recvType EXCEPT
                        ![e] = allowedTypes[e][DecodeName(Head(wire[e]))]]
                  /\ recvPc' = [recvPc EXCEPT ![e] = "decData"]
                  /\ UNCHANGED <<recvErr, recvClosed, errorClosed>>
             ELSE /\ RecvFail(e, "type not allowed")
                  /\ UNCHANGED recvType
       \/ /\ ReadClosed(e)
          /\ RecvReturn(e)
          /\ UNCHANGED <<wire, recvType, recvErr>>
       \/ /\ ReadFails(e)
          /\ RecvFail(e, "read")
          /\ UNCHANGED <<wire, recvType>>
    /\ UNCHANGED <<envVars, dropped, Send, sendClosed, Recv, Error,
                   closeRecvChan, socCloses, sendVars, recvData, closeVars,
                   panicked, sent, pushed>>

\* err = wc.decoder.Decode(data.Interface())
RecvDecodeData(e) ==
    /\ panicked = "none"
    /\ recvPc[e] = "decData"
    /\ \/ /\ wire[e] # <<>>
          /\ wire' = [wire EXCEPT ![e] = Tail(@)]
          /\ IF DecodesAs(Head(wire[e]), recvType[e])
             THEN /\ recvData' = [recvData EXCEPT
                        ![e] = DecodeValue(Head(wire[e]), recvType[e])]
                  /\ recvPc' = [recvPc EXCEPT ![e] = "push"]
                  /\ UNCHANGED <<recvErr, recvClosed, errorClosed>>
             ELSE /\ RecvFail(e, "unmarshal")
                  /\ UNCHANGED recvData
       \/ /\ ReadClosed(e)
          /\ RecvReturn(e)
          /\ UNCHANGED <<wire, recvData, recvErr>>
       \/ /\ ReadFails(e)
          /\ RecvFail(e, "read")
          /\ UNCHANGED <<wire, recvData>>
    /\ UNCHANGED <<envVars, dropped, Send, sendClosed, Recv, Error,
                   closeRecvChan, socCloses, sendVars, recvType, closeVars,
                   panicked, sent, pushed>>

\* A recv routine that drops the value when Recv is full.
RecvPushLossy(e) ==
    /\ panicked = "none"
    /\ recvPc[e] = "push"
    /\ IF Len(Recv[e]) < bufLength
       THEN /\ Recv' = [Recv EXCEPT ![e] = Append(@, recvData[e])]
            /\ pushed' = [pushed EXCEPT ![e] = Append(@, recvData[e])]
       ELSE UNCHANGED <<Recv, pushed>>
    /\ recvPc' = [recvPc EXCEPT ![e] = "select"]
    /\ UNCHANGED <<envVars, dropped, Send, sendClosed, recvClosed, Error,
                   errorClosed, closeRecvChan, socCloses, wire, sendVars,
                   recvType, recvData, recvErr, closeVars, panicked, sent>>

\* wc.Recv <- data.Elem().Interface()
RecvPush(e) ==
    /\ panicked = "none"
    /\ recvPc[e] = "push"
    /\ Len(Recv[e]) < bufLength
    /\ Recv' = [Recv EXCEPT ![e] = Append(@, recvData[e])]
    /\ pushed' = [pushed EXCEPT ![e] = Append(@, recvData[e])]
    /\ recvPc' = [recvPc EXCEPT ![e] = "select"]
    /\ UNCHANGED <<envVars, dropped, Send, sendClosed, recvClosed, Error,
                   errorClosed, closeRecvChan, socCloses, wire, sendVars,
                   recvType, recvData, recvErr, closeVars, panicked, sent>>

\* A recv routine that returns after reporting an error.
RecvReportReturning(e) ==
    /\ panicked = "none"
    /\ recvPc[e] = "report"
    /\ tryPushError(e, "recv")
    /\ recvPc' = [recvPc EXCEPT ![e] = "done"]
    /\ recvClosed' = [recvClosed EXCEPT ![e] = TRUE]
    /\ UNCHANGED <<envVars, Send, sendClosed, Recv, errorClosed,
                   closeRecvChan, socCloses, wire, sendVars, recvType,
                   recvData, recvErr, closeVars, panicked, sent, pushed>>

\* wc.tryPushError(&recvError{err}); continue
RecvReport(e) ==
    /\ panicked = "none"
    /\ recvPc[e] = "report"
    /\ tryPushError(e, "recv")
    /\ recvPc' = [recvPc EXCEPT ![e] = "select"]
    /\ UNCHANGED <<envVars, Send, sendClosed, Recv, recvClosed, errorClosed,
                   closeRecvChan, socCloses, wire, sendVars, recvType,
                   recvData, recvErr, closeVars, panicked, sent, pushed>>

----------------------------------------------------------------------------
\* WebChan.Close, called by caller c on endpoint e.

\* A Close() that does not look at closeRecvChan first.
CloseSelectUnchecked(e, c) ==
    /\ panicked = "none"
    /\ closePc[e][c] = "idle"
    /\ closeCalls[e][c] < MaxCloseCalls
    /\ closeCalls' = [closeCalls EXCEPT ![e][c] = @ + 1]
    /\ closePc' = [closePc EXCEPT ![e][c] = "closeSig"]
    /\ UNCHANGED <<envVars, dropped, Send, sendClosed, Recv, recvClosed, Error,
                   errorClosed, closeRecvChan, socCloses, wire, sendVars,
                   recvVars, panicked, sent, pushed>>

\* select { case _, ok := <-wc.closeRecvChan: ...; default: ... }
\* A closed closeRecvChan makes the receive ready with ok = false: return.
CloseSelect(e, c) ==
    /\ panicked = "none"
    /\ closePc[e][c] = "idle"
    /\ closeCalls[e][c] < MaxCloseCalls
    /\ closeCalls' = [closeCalls EXCEPT ![e][c] = @ + 1]
    /\ closePc' = [closePc EXCEPT
            ![e][c] = IF closeRecvChan[e] THEN "idle" ELSE "closeSig"]
    /\ UNCHANGED <<envVars, dropped, Send, sendClosed, Recv, recvClosed,
                   Error, errorClosed, closeRecvChan, socCloses, wire,
                   sendVars, recvVars, panicked, sent, pushed>>

\* close(wc.closeRecvChan)
CloseSignal(e, c) ==
    /\ panicked = "none"
    /\ closePc[e][c] = "closeSig"
    /\ IF closeRecvChan[e]
       THEN /\ panicked' = "close of closed channel"
            /\ UNCHANGED <<closeRecvChan, closePc>>
       ELSE /\ closeRecvChan' = [closeRecvChan EXCEPT ![e] = TRUE]
            /\ closePc' = [closePc EXCEPT ![e][c] = "closeSend"]
            /\ UNCHANGED panicked
    /\ UNCHANGED <<envVars, dropped, Send, sendClosed, Recv, recvClosed,
                   Error, errorClosed, socCloses, wire, sendVars, recvVars,
                   closeCalls, sent, pushed>>

\* close(wc.Send)
CloseSend(e, c) ==
    /\ panicked = "none"
    /\ closePc[e][c] = "closeSend"
    /\ IF sendClosed[e]
       THEN /\ panicked' = "close of closed channel"
            /\ UNCHANGED <<sendClosed, closePc>>
       ELSE /\ sendClosed' = [sendClosed EXCEPT ![e] = TRUE]
            /\ closePc' = [closePc EXCEPT ![e][c] = "closeSoc"]
            /\ UNCHANGED panicked
    /\ UNCHANGED <<envVars, dropped, Send, Recv, recvClosed, Error,
                   errorClosed, closeRecvChan, socCloses, wire, sendVars,
                   recvVars, closeCalls, sent, pushed>>

\* A Close() that leaves the socket open.
CloseSocSkipped(e, c) ==
    /\ panicked = "none"
    /\ closePc[e][c] = "closeSoc"
    /\ closePc' = [closePc EXCEPT ![e][c] = "idle"]
    /\ UNCHANGED <<envVars, dropped, Send, sendClosed, Recv, recvClosed,
                   Error, errorClosed, closeRecvChan, socCloses, wire,
                   sendVars, recvVars, closeCalls, panicked, sent, pushed>>

\* wc.soc.Close()
CloseSoc(e, c) ==
    /\ panicked = "none"
    /\ closePc[e][c] = "closeSoc"
    /\ socCloses' = [socCloses EXCEPT ![e] = @ + 1]
    /\ closePc' = [closePc EXCEPT ![e][c] = "idle"]
    /\ UNCHANGED <<envVars, dropped, Send, sendClosed, Recv, recvClosed,
                   Error, errorClosed, closeRecvChan, wire, sendVars,
                   recvVars, closeCalls, panicked, sent, pushed>>

----------------------------------------------------------------------------
\* The callers' use of the three channels.

\* A Send that still takes values after close(wc.Send).
EnqueueAfterClose(e, v) ==
    /\ panicked = "none"
    /\ Len(sent[e]) < MaxSends
    /\ Len(Send[e]) < bufLength
    /\ Send' = [Send EXCEPT ![e] = Append(@, v)]
    /\ sent' = [sent EXCEPT ![e] = Append(@, v)]
    /\ UNCHANGED <<envVars, dropped, sendClosed, Recv, recvClosed, Error,
                   errorClosed, closeRecvChan, socCloses, wire, sendVars,
                   recvVars, closeVars, panicked, pushed>>

\* wc.Send <- v: blocks while Send is full, panics once Send is closed.
Enqueue(e, v) ==
    /\ panicked = "none"
    /\ Len(sent[e]) < MaxSends
    /\ IF sendClosed[e]
       THEN /\ panicked' = "send on closed channel"
            /\ UNCHANGED <<Send, sent>>
       ELSE /\ Len(Send[e]) < bufLength
            /\ Send' = [Send EXCEPT ![e] = Append(@, v)]
            /\ sent' = [sent EXCEPT ![e] = Append(@, v)]
            /\ UNCHANGED panicked
    /\ UNCHANGED <<envVars, dropped, sendClosed, Recv, recvClosed, Error,
                   errorClosed, closeRecvChan, socCloses, wire, sendVars,
                   recvVars, closeVars, pushed>>

\* msg := <-wc.Recv
ReadRecv(e) ==
    /\ panicked = "none"
    /\ Recv[e] # <<>>
    /\ Recv' = [Recv EXCEPT ![e] = Tail(@)]
    /\ UNCHANGED <<envVars, dropped, Send, sendClosed, recvClosed, Error,
                   errorClosed, closeRecvChan, socCloses, wire, sendVars,
                   recvVars, closeVars, panicked, sent, pushed>>

\* err := <-wc.Error
ReadError(e) ==
    /\ panicked = "none"
    /\ Error[e] # <<>>
    /\ Error' = [Error EXCEPT ![e] = Tail(@)]
    /\ UNCHANGED <<envVars, dropped, Send, sendClosed, Recv, recvClosed,
                   errorClosed, closeRecvChan, socCloses, wire, sendVars,
                   recvVars, closeVars, panicked, sent, pushed>>

\* The values the caller has taken from Recv so far.
Yielded(e) == SubSeq(pushed[e], 1, Len(pushed[e]) - Len(Recv[e]))

----------------------------------------------------------------------------
\* The state NewNamedWebChan leaves: empty open channels, both routines at
\* the head of their loops.

InitChan ==
    /\ Send = [e \in Endpoints |-> <<>>]
    /\ sendClosed = [e \in Endpoints |-> FALSE]
    /\ Recv = [e \in Endpoints |-> <<>>]
    /\ recvClosed = [e \in Endpoints |-> FALSE]
    /\ Error = [e \in Endpoints |-> <<>>]
    /\ errorClosed = [e \in Endpoints |-> FALSE]
    /\ dropped = [e \in Endpoints |-> {}]
    /\ closeRecvChan = [e \in Endpoints |-> FALSE]
    /\ socCloses = [e \in Endpoints |-> 0]
    /\ wire = [e \in Endpoints |-> <<>>]
    /\ sendPc = [e \in Endpoints |-> "recv"]
    /\ sendData = [e \in Endpoints |-> NoValue]
    /\ sendName = [e \in Endpoints |-> ""]
    /\ recvPc = [e \in Endpoints |-> "select"]
    /\ recvType = [e \in Endpoints |-> ""]
    /\ recvData = [e \in Endpoints |-> NoValue]
    /\ recvErr = [e \in Endpoints |-> ""]
    /\ closePc = [e \in Endpoints |-> [c \in Callers |-> "idle"]]
    /\ closeCalls = [e \in Endpoints |-> [c \in Callers |-> 0]]
    /\ panicked = "none"
    /\ sent = [e \in Endpoints |-> <<>>]
    /\ pushed = [e \in Endpoints |-> <<>>]

\* Both endpoints built by NewWebChan; B allows the same types as A or only
\* strings.
Registries ==
    {[e \in Endpoints |-> RegFull],
     [e \in Endpoints |-> IF e = "A" THEN RegFull ELSE RegStr]}

\* The stream only fails by being closed; the owner of one of the two
\* endpoints calls Close().
Init ==
    /\ allowedTypes \in Registries
    /\ readFaulty = {}
    /\ writeFaulty = {}
    /\ closers \in {{e} : e \in Endpoints}
    /\ bufLength \in 1..MaxBufLen
    /\ InitChan

SendRoutine(e) ==
    \/ SendDequeue(e)
    \/ SendEncodeName(e)
    \/ SendEncodeData(e)
    \/ SendReport(e)

RecvRoutine(e) ==
    \/ RecvSelect(e)
    \/ RecvDecodeName(e)
    \/ RecvDecodeData(e)
    \/ RecvPush(e)
    \/ RecvReport(e)

Close(e, c) ==
    \/ CloseSelect(e, c)
    \/ CloseSignal(e, c)
    \/ CloseSend(e, c)
    \/ CloseSoc(e, c)

\* One caller per endpoint calls Close(), any number of times in a row.
Next ==
    \/ \E e \in Endpoints : SendDequeue(e)
    \/ \E e \in Endpoints : SendEncodeName(e)
    \/ \E e \in Endpoints : SendEncodeData(e)
    \/ \E e \in Endpoints : SendReport(e)
    \/ \E e \in Endpoints : RecvSelect(e)
    \/ \E e \in Endpoints : RecvDecodeName(e)
    \/ \E e \in Endpoints : RecvDecodeData(e)
    \/ \E e \in Endpoints : RecvPush(e)
    \/ \E e \in Endpoints : RecvReport(e)
    \/ \E e \in closers : CloseSelect(e, 1)
    \/ \E e \in closers : CloseSignal(e, 1)
    \/ \E e \in closers : CloseSend(e, 1)
    \/ \E e \in closers : CloseSoc(e, 1)
    \/ \E e \in Senders, v \in Values : Enqueue(e, v)
    \/ \E e \in Endpoints : ReadRecv(e)
    \/ \E e \in Endpoints : ReadError(e)

Spec == Init /\ [][Next]_vars

\* Several goroutines call Close() on the same endpoint concurrently.
NextConc ==
    \/ \E e \in Endpoints : SendDequeue(e)
    \/ \E e \in Endpoints : SendEncodeName(e)
    \/ \E e \in Endpoints : SendEncodeData(e)
    \/ \E e \in Endpoints : SendReport(e)
    \/ \E e \in Endpoints : RecvSelect(e)
    \/ \E e \in Endpoints : RecvDecodeName(e)
    \/ \E e \in Endpoints : RecvDecodeData(e)
    \/ \E e \in Endpoints : RecvPush(e)
    \/ \E e \in Endpoints : RecvReport(e)
    \/ \E e \in closers, c \in Callers : CloseSelect(e, c)
    \/ \E e \in closers, c \in Callers : CloseSignal(e, c)
    \/ \E e \in closers, c \in Callers : CloseSend(e, c)
    \/ \E e \in closers, c \in Callers : CloseSoc(e, c)
    \/ \E e \in Senders, v \in Values : Enqueue(e, v)
    \/ \E e \in Endpoints : ReadRecv(e)
    \/ \E e \in Endpoints : ReadError(e)

SpecConc == Init /\ [][NextConc]_vars

\* A's reads of the stream keep failing with an error other than
\* net.ErrClosed and io.EOF; A's owner sends strings and calls Close().
InitErr ==
    /\ allowedTypes = [e \in Endpoints |-> RegFull]
    /\ readFaulty = {"A"}
    /\ writeFaulty = {}
    /\ closers = {"A"}
    /\ bufLength = 1
    /\ InitChan

NextErr ==
    \/ \E e \in Endpoints : SendDequeue(e)
    \/ \E e \in Endpoints : SendEncodeName(e)
    \/ \E e \in Endpoints : SendEncodeData(e)
    \/ \E e \in Endpoints : SendReport(e)
    \/ \E e \in Endpoints : RecvSelect(e)
    \/ \E e \in Endpoints : RecvDecodeName(e)
    \/ \E e \in Endpoints : RecvDecodeData(e)
    \/ \E e \in Endpoints : RecvPush(e)
    \/ \E e \in Endpoints : RecvReport(e)
    \/ \E e \in closers : CloseSelect(e, 1)
    \/ \E e \in closers : CloseSignal(e, 1)
    \/ \E e \in closers : CloseSend(e, 1)
    \/ \E e \in closers : CloseSoc(e, 1)
    \/ \E e \in Senders : Enqueue(e, Hello)
    \/ \E e \in Endpoints : ReadRecv(e)
    \/ \E e \in Endpoints : ReadError(e)

SpecErr == InitErr /\ [][NextErr]_vars

\* The values of the types registered by both endpoints of the test.
RegisteredValues == {v \in Values : v.type \in DOMAIN RegFull}

\* The test's setting: the same registry on both endpoints, a stream that
\* does not fail, nobody calls Close(), only allowed types are sent.
InitRT ==
    /\ allowedTypes = [e \in Endpoints |-> RegFull]
    /\ readFaulty = {}
    /\ writeFaulty = {}
    /\ closers = {}
    /\ bufLength \in 1..MaxBufLen
    /\ InitChan

NextRT ==
    \/ \E e \in Endpoints : SendDequeue(e)
    \/ \E e \in Endpoints : SendEncodeName(e)
    \/ \E e \in Endpoints : SendEncodeData(e)
    \/ \E e \in Endpoints : RecvSelect(e)
    \/ \E e \in Endpoints : RecvDecodeName(e)
    \/ \E e \in Endpoints : RecvDecodeData(e)
    \/ \E e \in Endpoints : RecvPush(e)
    \/ \E e \in Senders, v \in RegisteredValues : Enqueue(e, v)
    \/ \E e \in Endpoints : ReadRecv(e)

\* The stream fails on its own, with errors other than net.ErrClosed and
\* io.EOF: either A's writes or B's reads.  Both endpoints were built as in
\* the test, only allowed types are sent and nobody calls Close().
InitFault ==
    /\ allowedTypes = [e \in Endpoints |-> RegFull]
    /\ \/ writeFaulty = {"A"} /\ readFaulty = {}
       \/ writeFaulty = {} /\ readFaulty = {"B"}
    /\ closers = {}
    /\ bufLength = 1
    /\ InitChan

NextFault ==
    \/ \E e \in Endpoints : SendDequeue(e)
    \/ \E e \in Endpoints : SendEncodeName(e)
    \/ \E e \in Endpoints : SendEncodeData(e)
    \/ \E e \in Endpoints : SendReport(e)
    \/ \E e \in Endpoints : RecvSelect(e)
    \/ \E e \in Endpoints : RecvDecodeName(e)
    \/ \E e \in Endpoints : RecvDecodeData(e)
    \/ \E e \in Endpoints : RecvPush(e)
    \/ \E e \in Endpoints : RecvReport(e)
    \/ \E e \in Senders, v \in RegisteredValues : Enqueue(e, v)
    \/ \E e \in Endpoints : ReadRecv(e)
    \/ \E e \in Endpoints : ReadError(e)

SpecFault == InitFault /\ [][NextFault]_vars

\* The Go scheduler runs every goroutine that can take a step.
RoutinesFair ==
    \A e \in Endpoints :
        /\ WF_vars(SendDequeue(e))
        /\ WF_vars(SendEncodeName(e))
        /\ WF_vars(SendEncodeData(e))
        /\ WF_vars(SendReport(e))
        /\ WF_vars(RecvSelect(e))
        /\ WF_vars(RecvDecodeName(e))
        /\ WF_vars(RecvDecodeData(e))
        /\ WF_vars(RecvPush(e))
        /\ WF_vars(RecvReport(e))

\* A Close() call that has begun runs to its end.
CloseFair ==
    \A e \in Endpoints : \A c \in Callers :
        /\ WF_vars(CloseSignal(e, c))
        /\ WF_vars(CloseSend(e, c))
        /\ WF_vars(CloseSoc(e, c))

\* The owner of the sending endpoint sends values of allowed types and calls
\* Close(); both endpoints were built as in the test, with room for two
\* values in Send, and the stream only fails by being closed.
InitDrain ==
    /\ allowedTypes = [e \in Endpoints |-> RegFull]
    /\ readFaulty = {}
    /\ writeFaulty = {}
    /\ closers = Senders
    /\ bufLength = 2
    /\ InitChan

NextDrain ==
    \/ \E e \in Endpoints : SendDequeue(e)
    \/ \E e \in Endpoints : SendEncodeName(e)
    \/ \E e \in Endpoints : SendEncodeData(e)
    \/ \E e \in Endpoints : SendReport(e)
    \/ \E e \in Endpoints : RecvSelect(e)
    \/ \E e \in Endpoints : RecvDecodeName(e)
    \/ \E e \in Endpoints : RecvDecodeData(e)
    \/ \E e \in Endpoints : RecvPush(e)
    \/ \E e \in Endpoints : RecvReport(e)
    \/ \E e \in closers : CloseSelect(e, 1)
    \/ \E e \in closers : CloseSignal(e, 1)
    \/ \E e \in closers : CloseSend(e, 1)
    \/ \E e \in closers : CloseSoc(e, 1)
    \/ \E e \in Senders, v \in RegisteredValues : Enqueue(e, v)
    \/ \E e \in Endpoints : ReadRecv(e)
    \/ \E e \in Endpoints : ReadError(e)

\* The scheduler runs the send routine of the closing endpoint.
SendRoutineFair ==
    \A e \in Senders :
        /\ WF_vars(SendDequeue(e))
        /\ WF_vars(SendEncodeName(e))
        /\ WF_vars(SendEncodeData(e))
        /\ WF_vars(SendReport(e))

\* The send routine of the closing endpoint and a Close() that has begun
\* run under the scheduler's fairness.  The peer is another process: it may
\* stop reading the stream at any time, and the owners are free to read Recv
\* and Error or not to.
SpecDrain == InitDrain /\ [][NextDrain]_vars /\ SendRoutineFair /\ CloseFair

\* Spec under the scheduler's fairness; the owners of the endpoints remain
\* free to enqueue, to read Recv and Error and to call Close(), or not to.
SpecFair == Init /\ [][Next]_vars /\ RoutinesFair /\ CloseFair

\* The routines run and the owner of every endpoint keeps reading Recv.
SpecRT ==
    /\ InitRT
    /\ [][NextRT]_vars
    /\ RoutinesFair
    /\ \A e \in Endpoints : WF_vars(ReadRecv(e))

----------------------------------------------------------------------------
\* Properties.

IsPrefix(s, t) == Len(s) <= Len(t) /\ SubSeq(t, 1, Len(s)) = s

SameRegistry == allowedTypes["A"] = allowedTypes["B"]

FaultFree == readFaulty = {} /\ writeFaulty = {}

\* C1: order preservation.  Over a stream that only fails by being closed
\* and with the same registry on both endpoints, the values B's recv routine
\* has pushed onto B.Recv are a prefix of the values enqueued on A.Send.
C1_OrderPreserved ==
    (SameRegistry /\ FaultFree) => IsPrefix(pushed["B"], sent["A"])

\* Two different values sent by A have both been pushed onto B.Recv.
C1_Witness ==
    /\ SameRegistry
    /\ FaultFree
    /\ Len(pushed["B"]) = 2
    /\ pushed["B"][1] # pushed["B"][2]
    /\ pushed["B"] = sent["A"]

\* C2: round trip.  In the test's setting every value of a registered type
\* enqueued on A.Send is eventually yielded by B.Recv, equal to what was
\* sent and of the same type, at the same position.
C2_RoundTrip ==
    \A i \in 1..MaxSends : \A v \in RegisteredValues :
        (Len(sent["A"]) >= i /\ sent["A"][i] = v)
            ~> (Len(Yielded("B")) >= i /\ Yielded("B")[i] = v)

\* B's owner has read a string and a testType, equal to what A sent.
C2_Witness ==
    /\ Len(Yielded("B")) = 2
    /\ Yielded("B") = sent["A"]
    /\ {Yielded("B")[1].type, Yielded("B")[2].type} = DOMAIN RegFull

\* Close() has been called on e and every call made has returned.
CloseReturned(e) ==
    /\ \E c \in Callers : closeCalls[e][c] >= 1
    /\ \A c \in Callers : closePc[e][c] = "idle"

\* What the first Close() leaves, and no later one undoes or repeats.
ClosedOnce(e) ==
    /\ socCloses[e] <= 1
    /\ CloseReturned(e) =>
          closeRecvChan[e] /\ sendClosed[e] /\ socCloses[e] = 1

\* A step in which a caller enters Close() after an earlier call returned.
LaterClose(e) ==
    /\ CloseReturned(e)
    /\ \E c \in Callers : closeCalls'[e][c] = closeCalls[e][c] + 1

\* C3: Close() is idempotent when called sequentially.  Once the first call
\* has returned, the shutdown signal is set, Send is closed and soc.Close()
\* has run exactly once; a later call returns at once, without a panic, and
\* leaves the shutdown signal, Send, the stream, Recv and Error unchanged.
C3_CloseIdempotent ==
    [][\A e \in Endpoints :
         /\ ClosedOnce(e)'
         /\ panicked' # "close of closed channel"
         /\ LaterClose(e) =>
               /\ \A c \in Callers : closePc'[e][c] = "idle"
               /\ UNCHANGED <<closeRecvChan, sendClosed, socCloses, wire,
                              Send, Recv, recvClosed, Error, errorClosed,
                              panicked>>]_vars

\* A second Close() call on the same endpoint has returned.
C3_Witness ==
    \E e \in Endpoints :
        /\ closeCalls[e][1] = 2
        /\ closePc[e][1] = "idle"
        /\ socCloses[e] = 1
        /\ panicked = "none"

\* C4: Close() is safe to call from several goroutines concurrently: no
\* interleaving closes closeRecvChan or Send twice (a panic), and
\* soc.Close() runs at most once.
C4_ConcurrentCloseSafe ==
    /\ panicked # "close of closed channel"
    /\ \A e \in Endpoints : socCloses[e] <= 1

\* C5: after Close() has set the shutdown signal of an endpoint, the
\* endpoint's Recv is eventually closed (unless the process panicked),
\* whatever the recv routine was doing.
C5_RecvEventuallyClosed ==
    \A e \in Endpoints :
        closeRecvChan[e] ~> (recvClosed[e] \/ panicked # "none")

IsSuffix(s, t) ==
    Len(s) <= Len(t) /\ SubSeq(t, Len(t) - Len(s) + 1, Len(t)) = s

\* C6: once Send is closed no further item is accepted on it.  From then on
\* the contents of Send only shrink from the front, and a caller's attempt
\* to enqueue (it panics) adds nothing to Send and nothing to the stream.
C6_NoEnqueueAfterClose ==
    [][\A e \in Endpoints :
         sendClosed[e] =>
            /\ IsSuffix(Send'[e], Send[e])
            /\ sent'[e] = sent[e]
            /\ panicked' = "send on closed channel" =>
                  UNCHANGED <<Send, wire>>]_vars

\* A caller has tried to enqueue on a closed Send.
C6_Witness ==
    /\ panicked = "send on closed channel"
    /\ \E e \in Senders : sendClosed[e] /\ Len(sent[e]) >= 1

\* The send routine of e takes, in this step, a value of a type that is not
\* in e's registry.
DequeuesUnregistered(e) ==
    /\ Len(Send'[e]) < Len(Send[e])
    /\ \A k \in DOMAIN allowedTypes[e] : allowedTypes[e][k] # Head(Send[e]).type

\* C7: when the send routine dequeues a value whose type is not in the
\* registry it panics, offers nothing to Error and writes nothing to the
\* stream: the routine never stands at a write holding such a value, and
\* nothing is written after the panic.
C7_UnregisteredSendPanics ==
    [][\A e \in Endpoints :
         /\ DequeuesUnregistered(e) =>
               /\ panicked' = "type not allowed"
               /\ UNCHANGED <<wire, Error>>
         /\ sendPc'[e] \in {"encName", "encData"} =>
               \E k \in DOMAIN allowedTypes[e] :
                   allowedTypes[e][k] = sendData'[e].type
         /\ panicked = "type not allowed" => UNCHANGED wire]_vars

\* The send routine has panicked on a value of an unregistered type, after
\* writing the frame of a registered one.
C7_Witness ==
    /\ panicked = "type not allowed"
    /\ sendData["A"] = Seven
    /\ sent["A"] = <<Hello, Seven>>

\* The recv routine of e reads, in this step, a type name that is not in
\* e's registry.
ReadsUnregisteredName(e) ==
    /\ recvPc[e] = "decName"
    /\ wire[e] # <<>>
    /\ wire'[e] = Tail(wire[e])
    /\ DecodesAsName(Head(wire[e]))
    /\ DecodeName(Head(wire[e])) \notin DOMAIN allowedTypes[e]

\* C8: when the recv routine reads a type name that is not in its registry
\* it goes on to report a Recv error, which it offers to Error, and then
\* returns to the head of the loop; it pushes nothing onto Recv for that
\* frame and does not close Recv.
C8_UnregisteredNameReported ==
    [][\A e \in Endpoints :
         /\ ReadsUnregisteredName(e) =>
               /\ recvPc'[e] = "report"
               /\ recvErr'[e] = "type not allowed"
               /\ UNCHANGED <<Recv, recvClosed, pushed, Error>>
         /\ (recvPc[e] = "report" /\ recvPc'[e] # "report") =>
               /\ recvPc'[e] = "select"
               /\ Len(Error[e]) < ErrCap =>
                     Error'[e] = Append(Error[e], "recv")
               /\ UNCHANGED <<Recv, recvClosed, pushed, wire>>]_vars

\* B reported an unregistered type name and is reading the stream again.
C8_Witness ==
    /\ recvErr["B"] = "type not allowed"
    /\ recvPc["B"] = "decName"
    /\ Error["B"] = <<"recv">>
    /\ ~recvClosed["B"]

\* C10: the Error channel is never closed.
C10_ErrorNeverClosed == \A e \in Endpoints : ~errorClosed[e]

\* Close() has returned, the stream is closed and both routines of the
\* endpoint have ended; Error is open.
C10_Witness ==
    \E e \in Endpoints :
        /\ CloseReturned(e)
        /\ socClosed(e)
        /\ sendPc[e] = "done"
        /\ recvPc[e] = "done"
        /\ recvClosed[e]
        /\ ~errorClosed[e]

\* The routine of e that is at tryPushError leaves it in this step.
SendReports(e) == sendPc[e] = "report" /\ sendPc'[e] # "report"

RecvReports(e) == recvPc[e] = "report" /\ recvPc'[e] # "report"

\* C9: the Error queue is lossy and never blocks a routine.  It never holds
\* more than its capacity; an error reported by either routine while it is
\* full is dropped, the queue is left as it was and the routine goes on to
\* the head of its loop; and a routine at tryPushError can always take its
\* step, whether or not anybody reads Error.
C9_ErrorLossy ==
    /\ [](\A e \in Endpoints :
            /\ Len(Error[e]) <= ErrCap
            /\ panicked = "none" =>
                  /\ sendPc[e] = "report" => ENABLED SendReport(e)
                  /\ recvPc[e] = "report" => ENABLED RecvReport(e))
    /\ [][\A e \in Endpoints :
            Len(Error[e]) = ErrCap =>
               /\ SendReports(e) =>
                     /\ Error'[e] = Error[e]
                     /\ "send" \in dropped'[e]
                     /\ sendPc'[e] = "recv"
               /\ RecvReports(e) =>
                     /\ Error'[e] = Error[e]
                     /\ "recv" \in dropped'[e]
                     /\ recvPc'[e] = "select"]_vars

\* Both routines of A have had an error dropped on the full Error queue and
\* have gone on: the send routine to its end, the recv routine to the head
\* of its loop.
C9_Witness ==
    /\ Len(Error["A"]) = ErrCap
    /\ dropped["A"] = {"send", "recv"}
    /\ sendPc["A"] = "done"
    /\ recvPc["A"] \in {"select", "done"}

\* C11: when A calls Close(), the Recv channel of the peer B is eventually
\* closed (unless the process panicked), and it is closed once: B's recv
\* routine has ended when B.Recv is closed, so that nothing closes B.Recv
\* again or pushes onto it, also when B calls Close() itself.
C11_PeerRecvClosedOnce ==
    /\ closeRecvChan["A"] ~> (recvClosed["B"] \/ panicked # "none")
    /\ [](recvClosed["B"] => recvPc["B"] = "done")

\* Nobody has called Close() on either endpoint.
NoCloseCalled ==
    \A e \in Endpoints : \A c \in Callers : closeCalls[e][c] = 0

\* Every value enqueued so far is of a type its endpoint's registry holds.
OnlyRegisteredSent ==
    \A e \in Endpoints : \A i \in 1..Len(sent[e]) :
        getAllowedTypeName(e, sent[e][i]) # {}

\* C12: on a stream without faults, between endpoints with the same
\* registry, while only registered values have been sent and Close() has not
\* been called, no routine reports an error and nothing is offered to either
\* Error queue, no Recv is closed and nothing panics: what a caller sees
\* first among B.Recv, B.Error and A.Error is a value on B.Recv, one that A
\* sent.
C12_NoErrorWhenFaultFree ==
    (SameRegistry /\ FaultFree /\ NoCloseCalled /\ OnlyRegisteredSent) =>
        /\ panicked = "none"
        /\ IsPrefix(pushed["B"], sent["A"])
        /\ \A e \in Endpoints :
              /\ Error[e] = <<>>
              /\ dropped[e] = {}
              /\ sendPc[e] # "report"
              /\ recvPc[e] # "report"
              /\ ~recvClosed[e]

\* The test's run: a string and a testType sent, the string waiting on
\* B.Recv, no Close() so far and both Error queues empty.
C12_Witness ==
    /\ SameRegistry
    /\ FaultFree
    /\ NoCloseCalled
    /\ sent["A"] = <<Hello, TestValue>>
    /\ Recv["B"] # <<>>
    /\ Head(Recv["B"]) = Hello
    /\ Error["A"] = <<>>
    /\ Error["B"] = <<>>

\* The only way the pending read of e's recv routine can end is io.EOF: the
\* peer closed its end, everything it wrote has been read, and e's own end
\* is open and does not fail.
AtEndOfStream(e) ==
    /\ recvPc[e] \in {"decName", "decData"}
    /\ wire[e] = <<>>
    /\ socClosed(Peer(e))
    /\ ~socClosed(e)
    /\ e \notin readFaulty

\* The recv routine of e returns, in this step, from a read of the stream.
ReturnsFromRead(e) ==
    /\ recvPc[e] \in {"decName", "decData"}
    /\ recvPc'[e] = "done"

\* C13: a stream-closed-class failure (io.EOF, net.ErrClosed) of the read of
\* the type name or of the payload ends the recv routine and closes Recv,
\* and is not reported: the step offers nothing to Error and keeps no error
\* to report, and once the routine has ended it offers no Recv error.
C13_StreamClosedNotReported ==
    [][\A e \in Endpoints :
         /\ (AtEndOfStream(e) /\ recvPc'[e] # recvPc[e]) => ReturnsFromRead(e)
         /\ ReturnsFromRead(e) =>
               /\ ReadClosed(e)
               /\ recvClosed'[e]
               /\ UNCHANGED <<Error, dropped, errorClosed, recvErr, Recv,
                              pushed, wire>>
         /\ recvPc[e] = "done" =>
               /\ recvPc'[e] = "done"
               /\ Error'[e] # Append(Error[e], "recv")]_vars

\* B read the end of the stream after A closed it: B's recv routine has
\* ended and B.Recv is closed, with nothing on B.Error and B's Close() never
\* called.
C13_Witness ==
    /\ recvPc["B"] = "done"
    /\ recvClosed["B"]
    /\ ~closeRecvChan["B"]
    /\ socClosed("A")
    /\ pushed["B"] # <<>>
    /\ recvErr["B"] = ""
    /\ Error["B"] = <<>>

\* The write the send routine of e attempts in this step returns an error.
WriteFailed(e) ==
    /\ sendPc[e] \in {"encName", "encData"}
    /\ sendPc'[e] # sendPc[e]
    /\ wire'[Peer(e)] = wire[Peer(e)]

\* The read or the decoding the recv routine of e attempts in this step
\* returns an error.
ReadFailed(e) ==
    /\ recvPc[e] \in {"decName", "decData"}
    /\ recvPc'[e] \notin {recvPc[e], "decData", "push"}

\* C14: errors of the stream or of the codec that are not of the
\* stream-closed class never end a routine.  A failed write of the type name
\* or of the payload takes the send routine to tryPushError with a Send
\* error and then back to the head of its loop, the values still queued left
\* in place; a failed read or decoding takes the recv routine to tryPushError
\* with a Recv error and back to the head of its loop.  With nobody calling
\* Close(), no routine ever ends and no Recv is ever closed.
C14_ErrorsDoNotTerminate ==
    /\ [](\A e \in Endpoints :
            /\ sendPc[e] # "done"
            /\ recvPc[e] # "done"
            /\ ~recvClosed[e])
    /\ [][\A e \in Endpoints :
            /\ WriteFailed(e) => sendPc'[e] = "report"
            /\ SendReports(e) =>
                  /\ sendPc'[e] = "recv"
                  /\ Send'[e] = Send[e]
                  /\ Len(Error[e]) < ErrCap =>
                        Error'[e] = Append(Error[e], "send")
            /\ ReadFailed(e) =>
                  /\ recvPc'[e] = "report"
                  /\ recvErr'[e] \in {"read", "unmarshal", "type not allowed"}
            /\ RecvReports(e) =>
                  /\ recvPc'[e] = "select"
                  /\ Len(Error[e]) < ErrCap =>
                        Error'[e] = Append(Error[e], "recv")]_vars

\* A's write of the first value failed and was reported; its send routine
\* went on and the second value reached B.Recv.
C14_Witness ==
    /\ writeFaulty = {"A"}
    /\ sent["A"] = <<Hello, TestValue>>
    /\ Error["A"] = <<"send">>
    /\ pushed["B"] = <<TestValue>>
    /\ sendPc["A"] = "recv"
    /\ ~recvClosed["B"]

\* C15 as stated: wherever the recv routine has ended the stream has been
\* closed, and wherever the send routine has ended Send is closed and empty.
C15_OnlyStreamClosureTerminates ==
    \A e \in Endpoints :
        /\ recvPc[e] = "done" => (socClosed(e) \/ socClosed(Peer(e)))
        /\ sendPc[e] = "done" => (sendClosed[e] /\ Send[e] = <<>>)

\* C15, amended: the recv routine ends only at the select, on the shutdown
\* signal set by Close(), or at a read of the stream that fails with io.EOF
\* or net.ErrClosed; the send routine ends only at <-wc.Send, with Send
\* closed and empty.  So wherever the recv routine has ended the shutdown
\* signal is set or the peer has closed the stream, and wherever the send
\* routine has ended Send is closed and empty.
C15_SignalOrClosureTerminates ==
    /\ [](\A e \in Endpoints :
            /\ recvPc[e] = "done" =>
                  (closeRecvChan[e] \/ socClosed(Peer(e)))
            /\ sendPc[e] = "done" => (sendClosed[e] /\ Send[e] = <<>>))
    /\ [][\A e \in Endpoints :
            /\ (recvPc[e] # "done" /\ recvPc'[e] = "done") =>
                  \/ recvPc[e] = "select" /\ closeRecvChan[e]
                  \/ recvPc[e] \in {"decName", "decData"} /\ ReadClosed(e)
            /\ (sendPc[e] # "done" /\ sendPc'[e] = "done") =>
                  /\ sendPc[e] = "recv"
                  /\ sendClosed[e]
                  /\ Send[e] = <<>>]_vars

\* The recv routine has ended on the shutdown signal while both ends of the
\* stream are still open: Close() has not reached soc.Close() yet.
C15_Witness ==
    \E e \in Endpoints :
        /\ recvPc[e] = "done"
        /\ recvClosed[e]
        /\ closeRecvChan[e]
        /\ ~socClosed(e)
        /\ ~socClosed(Peer(e))

\* The recv routine of e holds a decoded value and Recv is full.
BlockedOnPush(e) == recvPc[e] = "push" /\ Len(Recv[e]) = bufLength

\* C16: backpressure on Recv.  While Recv is full and the recv routine has
\* a decoded value to push, the routine can take no step: it stays at the
\* push with the same value, reads nothing from the stream, does not look at
\* the shutdown signal and does not close Recv, whatever Close() and the
\* peer do, and Recv changes only by its owner taking a value; once there is
\* room the push can go ahead.
C16_Backpressure ==
    /\ [](\A e \in Endpoints :
            /\ BlockedOnPush(e) => ~ENABLED RecvRoutine(e)
            /\ (recvPc[e] = "push" /\ Len(Recv[e]) < bufLength
                  /\ panicked = "none") => ENABLED RecvPush(e))
    /\ [][\A e \in Endpoints :
            BlockedOnPush(e) =>
               /\ recvPc'[e] = "push"
               /\ recvData'[e] = recvData[e]
               /\ recvErr'[e] = recvErr[e]
               /\ recvClosed'[e] = recvClosed[e]
               /\ pushed'[e] = pushed[e]
               /\ IsPrefix(wire[e], wire'[e])
               /\ Recv'[e] \in {Recv[e], Tail(Recv[e])}]_vars

\* B's recv routine is blocked on a full B.Recv after B's Close() has
\* returned and closed the stream: B.Recv is still open.
C16_Witness ==
    /\ BlockedOnPush("B")
    /\ CloseReturned("B")
    /\ socClosed("B")
    /\ closeRecvChan["B"]
    /\ ~recvClosed["B"]

\* C17: after Close() the send routine drains Send and ends.  Once Send is
\* closed the routine takes the buffered values oldest first and goes to
\* write each of them; a write that fails is reported as a Send error and
\* the routine goes on; once Close() has returned the routine is never
\* blocked, neither at a write nor at tryPushError; and under fair
\* scheduling of the routine and of Close(), whatever the peer does, it
\* reaches its end with Send empty (unless the process panicked).
C17_SendDrainsAfterClose ==
    /\ \A e \in Endpoints :
          sendClosed[e] ~>
             ((sendPc[e] = "done" /\ Send[e] = <<>>) \/ panicked # "none")
    /\ [](\A e \in Endpoints :
            (CloseReturned(e) /\ sendPc[e] # "done" /\ panicked = "none") =>
                ENABLED SendRoutine(e))
    /\ [][\A e \in Endpoints :
            sendClosed[e] =>
               /\ Send'[e] # Send[e] =>
                     /\ Send'[e] = Tail(Send[e])
                     /\ sendData'[e] = Head(Send[e])
                     /\ sendPc'[e] = "encName"
               /\ WriteFailed(e) => sendPc'[e] = "report"
               /\ SendReports(e) =>
                     /\ sendPc'[e] = "recv"
                     /\ Len(Error[e]) < ErrCap =>
                           Error'[e] = Append(Error[e], "send")]_vars

\* Two values were buffered in A.Send when Close() closed the stream: the
\* send routine took both, reported a Send error for each and ended.
C17_Witness ==
    /\ CloseReturned("A")
    /\ sendPc["A"] = "done"
    /\ Send["A"] = <<>>
    /\ Len(sent["A"]) = 2
    /\ pushed["B"] = <<>>
    /\ wire["B"] = <<>>
    /\ Error["A"] = <<"send", "send">>

\* The recv routine of e takes, in this step, a type name from the stream
\* that e's registry does not hold.
TakesUnknownName(e) ==
    /\ recvPc[e] = "decName"
    /\ wire[e] # <<>>
    /\ Len(wire'[e]) < Len(wire[e])
    /\ DecodesAsName(Head(wire[e]))
    /\ ~createTypeInterfaceReflectPointer(e, DecodeName(Head(wire[e])))

\* The last thing the recv routine of e read is a type name it could not
\* resolve, and it has not read the stream since.
AfterUnknownName(e) ==
    /\ recvErr[e] = "type not allowed"
    /\ recvPc[e] \in {"report", "select", "decName"}

\* tok is the payload of a value the peer of e sent under a name that e's
\* registry does not hold.
PayloadOfUnknown(e, tok) ==
    \E i \in 1..Len(sent[Peer(e)]) :
        /\ \A k \in getAllowedTypeName(Peer(e), sent[Peer(e)][i]) :
              ~createTypeInterfaceReflectPointer(e, k)
        /\ tok = EncodeValue(sent[Peer(e)][i])

\* C18: a type name that cannot be resolved does not consume the frame's
\* payload.  Reading such a name takes the name alone from the stream;
\* reporting the error and checking the shutdown signal take nothing; so
\* the next value on the stream is the payload of the same frame, and it is
\* that payload the routine decodes next as a type name (pushing nothing),
\* the frames behind it being read from there on.
C18_UnknownNameKeepsPayload ==
    /\ [](\A e \in Endpoints :
            (AfterUnknownName(e) /\ wire[e] # <<>>) =>
                PayloadOfUnknown(e, Head(wire[e])))
    /\ [][\A e \in Endpoints :
            /\ TakesUnknownName(e) =>
                  /\ wire'[e] = Tail(wire[e])
                  /\ AfterUnknownName(e)'
            /\ recvPc[e] \in {"report", "select"} =>
                  IsPrefix(wire[e], wire'[e])
            /\ (AfterUnknownName(e) /\ Len(wire'[e]) < Len(wire[e])) =>
                  /\ recvPc[e] = "decName"
                  /\ wire'[e] = Tail(wire[e])
                  /\ pushed'[e] = pushed[e]
                  /\ IF DecodesAsName(Head(wire[e]))
                     THEN recvPc'[e] \in {"decData", "report"}
                     ELSE /\ recvPc'[e] = "report"
                          /\ recvErr'[e] = "unmarshal"]_vars

\* B could not resolve the name "webchan.testType" and reported it; it then
\* read the testType's payload where it expected a name, which is the
\* second error on B.Error; nothing was pushed.
C18_Witness ==
    /\ sent["A"] = <<TestValue>>
    /\ recvErr["B"] = "unmarshal"
    /\ Error["B"] = <<"recv", "recv">>
    /\ recvPc["B"] = "decName"
    /\ wire["B"] = <<>>
    /\ pushed["B"] = <<>>

\* The recv routine of e is at the head of its loop or has ended.
AtLoopHead(e) == recvPc[e] \in {"select", "done"}

\* C19: once Close() has set the shutdown signal, the recv routine pushes at
\* most one more value onto Recv.  The signal stays set; a push made while
\* it is set adds one value and takes the routine to the head of its loop;
\* and from the head of the loop with the signal set the routine only ends:
\* it reads nothing from the stream and pushes nothing more.
C19_OnePushAfterSignal ==
    [][\A e \in Endpoints :
         closeRecvChan[e] =>
            /\ closeRecvChan'[e]
            /\ pushed'[e] # pushed[e] =>
                  /\ Len(pushed'[e]) = Len(pushed[e]) + 1
                  /\ IsPrefix(pushed[e], pushed'[e])
                  /\ recvPc'[e] = "select"
            /\ AtLoopHead(e) =>
                  /\ AtLoopHead(e)'
                  /\ pushed'[e] = pushed[e]
                  /\ IsSuffix(Recv'[e], Recv[e])
                  /\ IsPrefix(wire[e], wire'[e])]_vars

\* B's Close() has returned and closed the stream while B's recv routine
\* holds a decoded value, the second of the run, and B.Recv has room for
\* it: one more value is about to appear on B.Recv.
C19_Witness ==
    /\ CloseReturned("B")
    /\ closeRecvChan["B"]
    /\ socClosed("B")
    /\ recvPc["B"] = "push"
    /\ Len(pushed["B"]) = 1
    /\ Len(Recv["B"]) < bufLength
    /\ ~recvClosed["B"]

\* A step appends tok, and nothing else, to the stream heading to e; the
\* recv routine of e takes no step at the same time.
Writes(e, tok) == wire'[e] = Append(wire[e], tok)

\* Something is appended to the stream heading to e in this step.
Written(e) == Len(wire'[e]) > Len(wire[e])

\* C20: the send routine never writes a payload without its type name.  It
\* stands at the write of the payload only straight after the write of the
\* name of the value it holds has succeeded; everything written to the
\* stream is either that name, written from the write of the name, or the
\* payload of the same value, written from the write of the payload, with
\* nothing written in between; and when the write of the name fails nothing
\* is written for that value: the routine reports the error and goes back to
\* <-wc.Send.
C20_PayloadFollowsName ==
    [][\A e \in Endpoints :
         /\ (sendPc'[e] = "encData" /\ sendPc[e] # "encData") =>
               /\ sendPc[e] = "encName"
               /\ sendName[e] \in getAllowedTypeName(e, sendData[e])
               /\ Writes(Peer(e), EncodeName(sendName[e]))
         /\ Written(Peer(e)) =>
               \/ /\ sendPc[e] = "encName"
                  /\ sendPc'[e] = "encData"
                  /\ Writes(Peer(e), EncodeName(sendName[e]))
               \/ /\ sendPc[e] = "encData"
                  /\ sendPc'[e] = "recv"
                  /\ Writes(Peer(e), EncodeValue(sendData[e]))
         /\ sendPc[e] = "encData" =>
               /\ sendData'[e] = sendData[e]
               /\ sendName'[e] = sendName[e]
               /\ sendPc'[e] \in {"encData", "recv", "report"}
         /\ (sendPc[e] = "encName" /\ sendPc'[e] = "report") =>
               wire'[Peer(e)] = wire[Peer(e)]
         /\ sendPc[e] = "report" =>
               /\ ~Written(Peer(e))
               /\ sendPc'[e] \in {"report", "recv"}]_vars

\* The write of the name of A's first value failed: neither its name nor
\* its payload is on the stream, which holds the whole frame of the second
\* value and nothing else.
C20_Witness ==
    /\ writeFaulty = {"A"}
    /\ sent["A"] = <<TestValue, Hello>>
    /\ Error["A"] = <<"send">>
    /\ sendPc["A"] = "recv"
    /\ recvPc["B"] \in {"select", "decName"}
    /\ pushed["B"] = <<>>
    /\ wire["B"] = <<EncodeName("string"), EncodeValue(Hello)>>

====
